---- MODULE Spec2Model ----
(***************************************************************************)
(* dotflow: the graph model of DotInterpreter (core/interpreter.py), its   *)
(* validators, the cluster context manager, the operator chain             *)
(* (api/natural.py), the textual DSL parser (api/dsl.py) and the DOT       *)
(* serializer (core/models.py, DotInterpreter.to_dot).                     *)
(*                                                                         *)
(* A Python str is a sequence of one-character strings.  None is the       *)
(* one-element sequence <<"<None>">>, which no str equals (its element is  *)
(* not a single character).  DOT text is a sequence of lines, a line a     *)
(* sequence of fragments whose concatenation is the line.                  *)
(***************************************************************************)
EXTENDS Integers, Sequences, FiniteSets, TLC

VARIABLES
    nodes,            \* DotInterpreter.nodes: dict id -> Node, in insertion order
    edges,            \* DotInterpreter.edges: list of Edge
    clusters,         \* DotInterpreter.clusters: dict name -> Cluster, in insertion order
    current_cluster,  \* DotInterpreter._current_cluster
    graph_attrs,      \* DotInterpreter._graph_attrs: dict key -> value, in insertion order
    theme,            \* DotInterpreter.theme
    theme_config,     \* DotInterpreter._theme_config: the entry of the shared table
                      \* ThemeManager._themes for the theme, held by reference
    cluster_frames,   \* previous_cluster of every suspended cluster() generator, innermost last
    last_node,        \* NaturalLanguageAPI._last_node
    pending_label,    \* NaturalLanguageAPI._pending_label
    entry_nodes,      \* history: for every open cluster block, the nodes the cluster active
                      \* at its entry held then (<<>> when none was active), innermost last
    result            \* the latest call: its name, arguments, exception and return value

vars == <<nodes, edges, clusters, current_cluster, graph_attrs, theme, theme_config,
          cluster_frames, last_node, pending_label, entry_nodes, result>>

----------------------------------------------------------------------------
(* Python values *)

None == <<"<None>">>

\* the character U+0000
NUL == "<NUL>"

LowerCase == <<"a", "b", "c", "d", "e", "f", "g", "h", "i", "j", "k", "l", "m",
               "n", "o", "p", "q", "r", "s", "t", "u", "v", "w", "x", "y", "z">>
UpperCase == <<"A", "B", "C", "D", "E", "F", "G", "H", "I", "J", "K", "L", "M",
               "N", "O", "P", "Q", "R", "S", "T", "U", "V", "W", "X", "Y", "Z">>
Letters == {LowerCase[i] : i \in 1..Len(LowerCase)} \cup {UpperCase[i] : i \in 1..Len(UpperCase)}
Digits == {"0", "1", "2", "3", "4", "5", "6", "7", "8", "9"}

\* the class \w of the re module, on the characters of the model
IsWord(c) == c \in Letters \/ c \in Digits \/ c = "_"

\* the class \s
IsSpace(c) == c \in {" ", "\t"}

\* bool(x) of a str or None
Truthy(s) == s # None /\ s # <<>>

\* x or y
Or(x, y) == IF Truthy(x) THEN x ELSE y

RECURSIVE Replace(_, _, _)
\* str.replace(old, new) for a one-character old
Replace(s, old, new) ==
    IF s = <<>> THEN <<>>
    ELSE (IF Head(s) = old THEN new ELSE <<Head(s)>>) \o Replace(Tail(s), old, new)

\* the index of the first c in s, 0 when there is none
IndexOf(s, c) ==
    IF \E i \in 1..Len(s) : s[i] = c
    THEN CHOOSE i \in 1..Len(s) : s[i] = c /\ \A j \in 1..(i - 1) : s[j] # c
    ELSE 0

\* s.split(c)[0]
SplitFirst(s, c) == IF IndexOf(s, c) = 0 THEN s ELSE SubSeq(s, 1, IndexOf(s, c) - 1)

\* re.match(r"^[a-zA-Z_]\w*$", s): $ also matches before one trailing newline
MatchIdentifier(s) ==
    LET body == IF s # <<>> /\ s[Len(s)] = "\n" THEN SubSeq(s, 1, Len(s) - 1) ELSE s
    IN  /\ body # <<>>
        /\ body[1] \in Letters \cup {"_"}
        /\ \A i \in 2..Len(body) : IsWord(body[i])

----------------------------------------------------------------------------
(* utils/validators.py: each returns the exception raised, "none" when none *)

validate_node_id(node_id) ==
    LET id == IF IndexOf(node_id, "[") # 0 THEN SplitFirst(node_id, "[") ELSE node_id
    IN  IF id = <<>> THEN "ValidationError"
        ELSE IF ~MatchIdentifier(id) THEN "ValidationError"
        ELSE "none"

MaxLabelLen == 1000

validate_label(label) ==
    IF ~Truthy(label) THEN "none"
    ELSE IF Len(label) > MaxLabelLen THEN "ValidationError"
    ELSE IF \E i \in 1..Len(label) : label[i] = NUL THEN "ValidationError"
    ELSE "none"

----------------------------------------------------------------------------
(* core/models.py and core/themes.py *)

\* an Enum member, tagged with its class: it is truthy and has the attribute
\* value, and none of the methods of str
Member(enum, value) == [enum |-> enum, value |-> value]

NodeShape ==
    [RECTANGLE |-> "rect", ELLIPSE |-> "ellipse", DIAMOND |-> "diamond",
     CIRCLE |-> "circle", TRIANGLE |-> "triangle", HEXAGON |-> "hexagon",
     COMPONENT |-> "component", PARALLELOGRAM |-> "parallelogram",
     ROUNDED_RECTANGLE |-> "rounded"]

EdgeStyle == [SOLID |-> "solid", DASHED |-> "dashed", DOTTED |-> "dotted", BOLD |-> "bold"]

Shape(name) == Member("NodeShape", NodeShape[name])
Style(name) == Member("EdgeStyle", EdgeStyle[name])

\* NodeStyle(color=, fillcolor=, fontcolor=): the other fields are the dataclass
\* defaults; a number is held as the text an f-string gives it
NodeStyle(color, fillcolor, fontcolor) ==
    [color |-> color, fillcolor |-> fillcolor, fontcolor |-> fontcolor,
     fontsize |-> "12", fontname |-> "Arial", style |-> "filled",
     width |-> "0.75", height |-> "0.5"]

EdgeStyleConfig(color, fontcolor) ==
    [color |-> color, fontcolor |-> fontcolor, fontsize |-> "10",
     arrowhead |-> "arrow", arrowtail |-> None, style |-> Style("SOLID")]

Themes == {"default", "dark", "colorful", "monochrome", "blue", "green"}

ThemeTable(t) ==
    CASE t = "dark" ->
           [bg_color |-> "#1a202c",
            node_style |-> NodeStyle("white", "#2d3748", "white"),
            edge_style |-> EdgeStyleConfig("#cbd5e0", "#cbd5e0")]
      [] t = "colorful" ->
           [bg_color |-> "#f7fafc",
            node_style |-> NodeStyle("#2d3748", "#ecc94b", "#2d3748"),
            edge_style |-> EdgeStyleConfig("#4a5568", "#4a5568")]
      [] t = "blue" ->
           [bg_color |-> "#f0f9ff",
            node_style |-> NodeStyle("#1e40af", "#dbeafe", "#1e3a8a"),
            edge_style |-> EdgeStyleConfig("#3b82f6", "#1e40af")]
      [] t = "green" ->
           [bg_color |-> "#f0fdf4",
            node_style |-> NodeStyle("#166534", "#dcfce7", "#166534"),
            edge_style |-> EdgeStyleConfig("#22c55e", "#166534")]
      [] OTHER ->
           [bg_color |-> "white",
            node_style |-> NodeStyle("black", "white", "black"),
            edge_style |-> EdgeStyleConfig("black", "black")]

\* ThemeManager.get_theme_config
get_theme_config(t) == ThemeTable(IF t \in Themes THEN t ELSE "default")

\* no keyword arguments
NoKw == <<>>

\* d.copy(); d.update(kw)
Update(d, kw) ==
    [k \in DOMAIN d \cup DOMAIN kw |-> IF k \in DOMAIN kw THEN kw[k] ELSE d[k]]

Node(id, label, shape, style) == [id |-> id, label |-> label, shape |-> shape, style |-> style]

Edge(from_node, to_node, label, style) ==
    [from_node |-> from_node, to_node |-> to_node, label |-> label, style |-> style,
     arrowhead |-> <<"arrow">>, arrowtail |-> None]

DefaultClusterStyle ==
    << <<"style", "filled">>, <<"color", "lightgrey">>,
       <<"fillcolor", "lightgrey:white">>, <<"gradientangle", "90">> >>

\* Cluster.__init__
Cluster(name, label, style) ==
    [name |-> <<"cluster_">> \o name, label |-> label, nodes |-> <<>>, edges |-> <<>>,
     style |-> IF style # <<>> THEN style ELSE DefaultClusterStyle]

\* Cluster.add_node
add_node(c, node) == [c EXCEPT !.nodes = Append(@, node)]

\* Cluster.add_edge
add_edge(c, edge) == [c EXCEPT !.edges = Append(@, edge)]

----------------------------------------------------------------------------
(* dict, as the sequence of its <<key, value>> items in insertion order *)

HasKey(d, k) == \E i \in 1..Len(d) : d[i][1] = k

KeyIndex(d, k) == CHOOSE i \in 1..Len(d) : d[i][1] = k

Get(d, k) == d[KeyIndex(d, k)][2]

\* d[k] = v: a key already there keeps its place
SetItem(d, k, v) ==
    IF HasKey(d, k) THEN [d EXCEPT ![KeyIndex(d, k)] = <<k, v>>] ELSE Append(d, <<k, v>>)

----------------------------------------------------------------------------
(* core/interpreter.py: DotInterpreter.  An operation takes the interpreter's
   fields as the record g and returns them with the exception raised ("none"
   when none) and the value returned. *)

Ret(g, err, value) == [g |-> g, err |-> err, value |-> value]

\* self._current_cluster and self._current_cluster in self.clusters
InCluster(g) == Truthy(g.current_cluster) /\ HasKey(g.clusters, g.current_cluster)

\* [node.id for node in cluster.nodes]
ClusterNodeIds(c) == {c.nodes[i].id : i \in 1..Len(c.nodes)}

\* any(node_id in [node.id for node in cluster.nodes] for cluster in self.clusters.values())
InAnyCluster(g, node_id) ==
    \E i \in 1..Len(g.clusters) : node_id \in ClusterNodeIds(g.clusters[i][2])

\* the fields of a style dataclass accept exactly their own keywords
StyleInit(custom_style, fields) == IF DOMAIN custom_style = fields THEN "none" ELSE "TypeError"

StoreNode(g, node) ==
    IF InCluster(g)
    THEN [g EXCEPT !.clusters =
             SetItem(@, g.current_cluster, add_node(Get(@, g.current_cluster), node))]
    ELSE [g EXCEPT !.nodes = SetItem(@, node.id, node)]

\* a variant that validates the label only after the node is stored
_create_node_validate_late(g, node_id0, label, shape, kwargs) ==
    LET node_id == Replace(node_id0, " ", <<>>)
        theme_style == g.theme_config.node_style
        custom_style == Update(theme_style, kwargs)
        node == Node(node_id, label, shape, custom_style)
    IN  IF validate_node_id(node_id) # "none" THEN Ret(g, validate_node_id(node_id), None)
        ELSE IF StyleInit(custom_style, DOMAIN theme_style) # "none"
             THEN Ret(g, "TypeError", None)
        ELSE IF validate_label(label) # "none"
             THEN Ret(StoreNode(g, node), validate_label(label), None)
        ELSE Ret(StoreNode(g, node), "none", node)

\* a variant that merges the overrides into the theme's own style object
_create_node_shared_style(g, node_id0, label, shape, kwargs) ==
    LET node_id == Replace(node_id0, " ", <<>>)
        custom_style == Update(g.theme_config.node_style, kwargs)
        node == Node(node_id, label, shape, custom_style)
        g2 == [g EXCEPT !.theme_config.node_style = custom_style]
    IN  IF validate_node_id(node_id) # "none" THEN Ret(g, validate_node_id(node_id), None)
        ELSE IF validate_label(label) # "none" THEN Ret(g, validate_label(label), None)
        ELSE IF StyleInit(custom_style, DOMAIN g.theme_config.node_style) # "none"
             THEN Ret(g, "TypeError", None)
        ELSE Ret(StoreNode(g2, node), "none", node)

_create_node(g, node_id0, label, shape, kwargs) ==
    LET node_id == Replace(node_id0, " ", <<>>)
        theme_style == g.theme_config.node_style
        custom_style == Update(theme_style, kwargs)
        node == Node(node_id, label, shape, custom_style)
    IN  IF validate_node_id(node_id) # "none" THEN Ret(g, validate_node_id(node_id), None)
        ELSE IF validate_label(label) # "none" THEN Ret(g, validate_label(label), None)
        ELSE IF StyleInit(custom_style, DOMAIN theme_style) # "none"
             THEN Ret(g, "TypeError", None)
        ELSE Ret(StoreNode(g, node), "none", node)

\* a variant that looks the node up at top level only
NodeKnown_top_level(g, node_id) == HasKey(g.nodes, node_id)

\* the two lookups of _create_edge
NodeKnown(g, node_id) == HasKey(g.nodes, node_id) \/ InAnyCluster(g, node_id)

\* a variant that keeps one edge per pair of endpoints and label
StoreEdge_merge(g, edge) ==
    LET held == IF InCluster(g) THEN Get(g.clusters, g.current_cluster).edges ELSE g.edges
    IN  IF \E i \in 1..Len(held) :
              /\ held[i].from_node = edge.from_node
              /\ held[i].to_node = edge.to_node
              /\ held[i].label = edge.label
        THEN g
        ELSE IF InCluster(g)
        THEN [g EXCEPT !.clusters =
                 SetItem(@, g.current_cluster, add_edge(Get(@, g.current_cluster), edge))]
        ELSE [g EXCEPT !.edges = Append(@, edge)]

\* the end of _create_edge: the edge goes to the active cluster or to the top level
StoreEdge(g, edge) ==
    IF InCluster(g)
    THEN [g EXCEPT !.clusters =
             SetItem(@, g.current_cluster, add_edge(Get(@, g.current_cluster), edge))]
    ELSE [g EXCEPT !.edges = Append(@, edge)]

\* a variant that stores the edge before it looks its endpoints up
_create_edge_store_first(g, from_node0, to_node0, label, style, kwargs) ==
    LET from_node == Replace(from_node0, " ", <<>>)
        to_node == Replace(to_node0, " ", <<>>)
        theme_style == g.theme_config.edge_style
        custom_style == Update(theme_style, Update([style |-> style], kwargs))
        edge == Edge(from_node, to_node, label, custom_style)
    IN  IF ~NodeKnown(g, from_node) THEN Ret(StoreEdge(g, edge), "NodeNotFoundError", None)
        ELSE IF ~NodeKnown(g, to_node) THEN Ret(StoreEdge(g, edge), "NodeNotFoundError", None)
        ELSE IF Truthy(label) /\ validate_label(label) # "none"
             THEN Ret(g, validate_label(label), None)
        ELSE Ret(StoreEdge(g, edge), "none", edge)

_create_edge(g, from_node0, to_node0, label, style, kwargs) ==
    LET from_node == Replace(from_node0, " ", <<>>)
        to_node == Replace(to_node0, " ", <<>>)
        theme_style == g.theme_config.edge_style
        custom_style == Update(theme_style, Update([style |-> style], kwargs))
        edge == Edge(from_node, to_node, label, custom_style)
    IN  IF ~NodeKnown(g, from_node) THEN Ret(g, "NodeNotFoundError", None)
        ELSE IF ~NodeKnown(g, to_node) THEN Ret(g, "NodeNotFoundError", None)
        ELSE IF Truthy(label) /\ validate_label(label) # "none"
             THEN Ret(g, validate_label(label), None)
        ELSE IF StyleInit(custom_style, DOMAIN theme_style) # "none"
             THEN Ret(g, "TypeError", None)
        ELSE Ret(StoreEdge(g, edge), "none", edge)

\* a variant in which every role makes a rectangle
RoleShape_rectangle(role) == Shape("RECTANGLE")

\* start, process, decision, end, input_output: the role's shape and keywords
RoleShape(role) ==
    CASE role = "start" -> Shape("ELLIPSE")
      [] role = "process" -> Shape("RECTANGLE")
      [] role = "decision" -> Shape("DIAMOND")
      [] role = "end" -> Shape("ELLIPSE")
      [] role = "input_output" -> Shape("PARALLELOGRAM")

RoleKw(role) ==
    IF role = "end" THEN [style |-> "filled", fillcolor |-> "#ffcccc"] ELSE NoKw

Roles == {"start", "process", "decision", "end", "input_output"}

\* DotInterpreter.start / process / decision / end / input_output
role_node(g, role, node_id, label) ==
    LET r == _create_node(g, node_id, Or(label, node_id), RoleShape(role), RoleKw(role))
    IN  Ret(r.g, r.err, IF r.err = "none" THEN "self" ELSE None)

\* DotInterpreter.connect
connect(g, from_node, to_node, label, style) ==
    LET r == _create_edge(g, from_node, to_node, label, style, NoKw)
    IN  Ret(r.g, r.err, IF r.err = "none" THEN "self" ELSE None)

RECURSIVE UpdateItems(_, _)
\* {**d, **kw} for dicts held as item sequences
UpdateItems(d, kw) ==
    IF kw = <<>> THEN d ELSE UpdateItems(SetItem(d, kw[1][1], kw[1][2]), Tail(kw))

\* DotInterpreter.cluster, up to the yield: the fields, and the frame's previous_cluster
cluster_enter(g, name, label, style_kwargs) ==
    [g |-> [g EXCEPT !.current_cluster = name,
                     !.clusters = SetItem(@, name,
                         Cluster(name, label, UpdateItems(DefaultClusterStyle, style_kwargs)))],
     previous_cluster |-> g.current_cluster]

\* DotInterpreter.cluster, the finally clause
cluster_exit(g, previous_cluster) == [g EXCEPT !.current_cluster = previous_cluster]

\* DotInterpreter.set_graph_attr
set_graph_attr(g, key, value) == [g EXCEPT !.graph_attrs = SetItem(@, key, value)]

----------------------------------------------------------------------------
(* The serializer.  A text is [err, lines]: the exception raised, or the lines. *)

\* html.escape(s, quote=True), character by character
EscapeChar(c) ==
    CASE c = "&" -> "&amp;"
      [] c = "<" -> "&lt;"
      [] c = ">" -> "&gt;"
      [] c = "\"" -> "&quot;"
      [] c = "'" -> "&#x27;"
      [] OTHER -> c

escape(s) == [i \in 1..Len(s) |-> EscapeChar(s[i])]

RECURSIVE Join(_)
\* ", ".join(attrs)
Join(attrs) ==
    IF attrs = <<>> THEN <<>>
    ELSE IF Len(attrs) = 1 THEN attrs[1]
    ELSE attrs[1] \o <<",", " ">> \o Join(Tail(attrs))

RECURSIVE LStripCommas(_)
LStripCommas(s) == IF s # <<>> /\ Head(s) = "," THEN LStripCommas(Tail(s)) ELSE s

RECURSIVE RStripCommas(_)
RStripCommas(s) ==
    IF s # <<>> /\ s[Len(s)] = "," THEN RStripCommas(SubSeq(s, 1, Len(s) - 1)) ELSE s

\* s.strip(",")
StripCommas(s) == RStripCommas(LStripCommas(s))

\* Node.to_dot
Node_to_dot(n) ==
    IF n.label = None THEN [err |-> "AttributeError", line |-> <<>>]
    ELSE
    LET attrs == <<
            <<"label=\"">> \o escape(n.label) \o <<"\"">>,
            <<"shape=", n.shape.value>>,
            <<"color=\"", n.style.color, "\"">>,
            <<"fillcolor=\"", n.style.fillcolor, "\"">>,
            <<"fontcolor=\"", n.style.fontcolor, "\"">>,
            <<"fontsize=", n.style.fontsize>>,
            <<"fontname=\"", n.style.fontname, "\"">>,
            <<"style=\"", n.style.style, "\"">>,
            <<"width=", n.style.width>>,
            <<"height=", n.style.height>> >>
    IN  [err |-> "none", line |-> n.id \o <<" [">> \o StripCommas(Join(attrs)) \o <<"];">>]

\* Edge.to_dot: style.style.strip() is evaluated whenever style.style is truthy
Edge_to_dot(e) ==
    LET sty == e.style.style
        isStr == sty.enum = "str"
    IN  IF ~isStr THEN [err |-> "AttributeError", line |-> <<>>]
        ELSE
        LET attrs == << <<>> >>
                \o (IF Truthy(e.label)
                    THEN << <<"label=\"">> \o escape(e.label) \o <<"\"">> >> ELSE <<>>)
                \o (IF Truthy(e.arrowhead)
                    THEN << <<"arrowhead=\"">> \o e.arrowhead \o <<"\"">> >> ELSE <<>>)
                \o (IF Truthy(e.arrowtail)
                    THEN << <<"arrowtail=\"">> \o e.arrowtail \o <<"\"">> >> ELSE <<>>)
                \o << <<"color=\"", e.style.color, "\"">>,
                      <<"fontcolor=\"", e.style.fontcolor, "\"">>,
                      <<"fontsize=", e.style.fontsize>> >>
        IN  [err |-> "none",
             line |-> e.from_node \o <<" -> ">> \o e.to_node \o <<" [">>
                      \o StripCommas(Join(attrs)) \o <<"];">>]

RECURSIVE NodeLines(_)
\* the lines of a list of nodes, or the first exception
NodeLines(ns) ==
    IF ns = <<>> THEN [err |-> "none", lines |-> <<>>]
    ELSE LET h == Node_to_dot(ns[1])
             t == NodeLines(Tail(ns))
         IN  IF h.err # "none" THEN [err |-> h.err, lines |-> <<>>]
             ELSE IF t.err # "none" THEN t
             ELSE [err |-> "none", lines |-> << <<"  ">> \o h.line >> \o t.lines]

RECURSIVE EdgeLines(_)
EdgeLines(es) ==
    IF es = <<>> THEN [err |-> "none", lines |-> <<>>]
    ELSE LET h == Edge_to_dot(es[1])
             t == EdgeLines(Tail(es))
         IN  IF h.err # "none" THEN [err |-> h.err, lines |-> <<>>]
             ELSE IF t.err # "none" THEN t
             ELSE [err |-> "none", lines |-> << <<"  ">> \o h.line >> \o t.lines]

\* Cluster.to_dot
Cluster_to_dot(c) ==
    LET ns == NodeLines(c.nodes)
        es == EdgeLines(c.edges)
    IN  IF ns.err # "none" THEN ns
        ELSE IF es.err # "none" THEN es
        ELSE [err |-> "none",
              lines |-> << <<"subgraph ">> \o c.name \o <<" {">> >>
                  \o << <<"  label=\"">> \o c.label \o <<"\";">> >>
                  \o [i \in 1..Len(c.style) |->
                         <<"  ", c.style[i][1], "=\"", c.style[i][2], "\";">>]
                  \o ns.lines \o es.lines
                  \o << <<"}">> >>]

RECURSIVE ClusterLines(_)
\* lines.extend([f"  {line}" for line in cluster.to_dot()]) for every cluster
ClusterLines(cs) ==
    IF cs = <<>> THEN [err |-> "none", lines |-> <<>>]
    ELSE LET h == Cluster_to_dot(cs[1][2])
             t == ClusterLines(Tail(cs))
         IN  IF h.err # "none" THEN h
             ELSE IF t.err # "none" THEN t
             ELSE [err |-> "none",
                   lines |-> [i \in 1..Len(h.lines) |-> <<"  ">> \o h.lines[i]] \o t.lines]

\* [d[i][2] : i] for a dict
Values(d) == [i \in 1..Len(d) |-> d[i][2]]

\* DotInterpreter.to_dot
to_dot(g) ==
    LET ns == NodeLines(Values(g.nodes))
        es == EdgeLines(g.edges)
        cs == ClusterLines(g.clusters)
    IN  IF ns.err # "none" THEN ns
        ELSE IF es.err # "none" THEN es
        ELSE IF cs.err # "none" THEN cs
        ELSE [err |-> "none",
              lines |-> << <<"digraph ", "flow", " {">> >>
                  \o [i \in 1..Len(g.graph_attrs) |->
                         <<"  ", g.graph_attrs[i][1], "=\"", g.graph_attrs[i][2], "\";">>]
                  \o << <<"  node [fontname=\"Arial\", fontsize=12];">>,
                        <<"  edge [fontname=\"Arial\", fontsize=10];">>,
                        <<>> >>
                  \o ns.lines \o es.lines \o cs.lines
                  \o << <<"}">> >>]

----------------------------------------------------------------------------
(* api/natural.py: NaturalLanguageAPI.  An operation takes the interpreter's
   fields g and the chain state nl = [last_node, pending_label]. *)

NlRet(g, nl, err) == [g |-> g, nl |-> nl, err |-> err]

\* a variant that begins a new chain at every expression: the last node of an
\* earlier expression is not used
nl_rshift_fresh(g, nl, other) ==
    IF validate_node_id(other) # "none" THEN NlRet(g, nl, validate_node_id(other))
    ELSE LET r == role_node(g, "start", other, None)
         IN  IF r.err # "none" THEN NlRet(g, nl, r.err)
             ELSE NlRet(r.g, [nl EXCEPT !.last_node = other], "none")

\* NaturalLanguageAPI.__rshift__ with a str
nl_rshift(g, nl, other) ==
    IF validate_node_id(other) # "none" THEN NlRet(g, nl, validate_node_id(other))
    ELSE IF Truthy(nl.last_node)
    THEN LET r == connect(g, nl.last_node, other, nl.pending_label, Style("SOLID"))
         IN  IF r.err # "none" THEN NlRet(g, nl, r.err)
             ELSE NlRet(r.g, [last_node |-> other, pending_label |-> None], "none")
    ELSE LET r == role_node(g, "start", other, None)
         IN  IF r.err # "none" THEN NlRet(g, nl, r.err)
             ELSE NlRet(r.g, [nl EXCEPT !.last_node = other], "none")

\* NaturalLanguageAPI.__or__ with a str
nl_or(g, nl, other) == NlRet(g, [nl EXCEPT !.pending_label = other], "none")

\* the index of the last edge whose to_node is n, 0 when there is none
LastEdgeTo(es, n) ==
    IF \E i \in 1..Len(es) : es[i].to_node = n
    THEN CHOOSE i \in 1..Len(es) :
            es[i].to_node = n /\ \A j \in (i + 1)..Len(es) : es[j].to_node # n
    ELSE 0

\* NaturalLanguageAPI.__getitem__ with a str
nl_getitem(g, nl, key) ==
    IF Truthy(nl.last_node) /\ g.edges # <<>> /\ LastEdgeTo(g.edges, nl.last_node) # 0
    THEN NlRet([g EXCEPT !.edges[LastEdgeTo(g.edges, nl.last_node)].label = key], nl, "none")
    ELSE NlRet(g, nl, "none")

\* a variant that moves the last node before it connects
nl_floordiv_advance_first(g, nl, other) ==
    IF Truthy(nl.last_node)
    THEN LET r == connect(g, nl.last_node, other, None, Style("DASHED"))
         IN  NlRet(r.g, [nl EXCEPT !.last_node = other], r.err)
    ELSE NlRet(g, nl, "none")

\* NaturalLanguageAPI.__floordiv__ with a str
nl_floordiv(g, nl, other) ==
    IF Truthy(nl.last_node)
    THEN LET r == connect(g, nl.last_node, other, None, Style("DASHED"))
         IN  IF r.err # "none" THEN NlRet(g, nl, r.err)
             ELSE NlRet(r.g, [nl EXCEPT !.last_node = other], "none")
    ELSE NlRet(g, nl, "none")

\* NaturalLanguageAPI.reset
nl_reset(g, nl) == NlRet(g, [last_node |-> None, pending_label |-> None], "none")

----------------------------------------------------------------------------
(* api/dsl.py: TextualDSL.  A text is the sequence of its lines, each a str
   without a newline. *)

RECURSIVE SkipWord(_, _)
\* the index after the longest run of \w characters of s from i
SkipWord(s, i) == IF i <= Len(s) /\ IsWord(s[i]) THEN SkipWord(s, i + 1) ELSE i

RECURSIVE SkipSpace(_, _)
\* the index after the longest run of \s characters of s from i
SkipSpace(s, i) == IF i <= Len(s) /\ IsSpace(s[i]) THEN SkipSpace(s, i + 1) ELSE i

RECURSIVE SkipUntil(_, _, _)
\* the index of the first c of s from i, Len(s) + 1 when there is none
SkipUntil(s, i, c) == IF i <= Len(s) /\ s[i] # c THEN SkipUntil(s, i + 1, c) ELSE i

At(s, i, c) == i <= Len(s) /\ s[i] = c

RECURSIVE LStrip(_)
LStrip(s) == IF s # <<>> /\ IsSpace(Head(s)) THEN LStrip(Tail(s)) ELSE s

RECURSIVE RStrip(_)
RStrip(s) == IF s # <<>> /\ IsSpace(s[Len(s)]) THEN RStrip(SubSeq(s, 1, Len(s) - 1)) ELSE s

\* str.strip()
Strip(s) == RStrip(LStrip(s))

RECURSIVE StripQuotes(_)
\* s.strip("'\"")
StripQuotes(s) ==
    IF s # <<>> /\ Head(s) \in {"'", "\""} THEN StripQuotes(Tail(s))
    ELSE IF s # <<>> /\ s[Len(s)] \in {"'", "\""} THEN StripQuotes(SubSeq(s, 1, Len(s) - 1))
    ELSE s

\* sub in s
Contains(s, sub) ==
    \E i \in 1..(Len(s) - Len(sub) + 1) : SubSeq(s, i, i + Len(sub) - 1) = sub

\* str.upper() on the letters of the model
UpperChar(c) ==
    IF \E i \in 1..Len(LowerCase) : LowerCase[i] = c
    THEN UpperCase[CHOOSE i \in 1..Len(LowerCase) : LowerCase[i] = c]
    ELSE c

Upper(s) == [i \in 1..Len(s) |-> UpperChar(s[i])]

NoMatch == [ok |-> FALSE]

\* re.match(r"(\w+)\s*(?:\{([^}]+)\})?\s*->\s*(\w+)\s*(?::\s*(.+))?", line).groups()
MatchConnection(line) ==
    LET i1 == SkipWord(line, 1)
        i2 == SkipSpace(line, i1)
        close == SkipUntil(line, i2 + 1, "}")
        hasMod == At(line, i2, "{") /\ close <= Len(line) /\ close > i2 + 1
        i3 == IF hasMod THEN close + 1 ELSE i2
        i4 == SkipSpace(line, i3)
        i5 == SkipSpace(line, i4 + 2)
        i6 == SkipWord(line, i5)
        i7 == SkipSpace(line, i6)
        i8 == SkipSpace(line, i7 + 1)
        label == IF ~At(line, i7, ":") THEN None
                 ELSE IF i8 <= Len(line) THEN SubSeq(line, i8, Len(line))
                 ELSE IF i8 > i7 + 1 THEN SubSeq(line, Len(line), Len(line))
                 ELSE None
    IN  IF i1 > 1 /\ At(line, i4, "-") /\ At(line, i4 + 1, ">") /\ i6 > i5
        THEN [ok |-> TRUE, from_node |-> SubSeq(line, 1, i1 - 1),
              modifiers |-> IF hasMod THEN SubSeq(line, i2 + 1, close - 1) ELSE None,
              to_node |-> SubSeq(line, i5, i6 - 1), label |-> label]
        ELSE NoMatch

\* the index of the last c of s, 0 when there is none
LastIndexOf(s, c) ==
    IF \E i \in 1..Len(s) : s[i] = c
    THEN CHOOSE i \in 1..Len(s) : s[i] = c /\ \A j \in (i + 1)..Len(s) : s[j] # c
    ELSE 0

\* re.match(r"(\w+)\s*\[(.+)\]", line).groups()
MatchNodeDef(line) ==
    LET i1 == SkipWord(line, 1)
        i2 == SkipSpace(line, i1)
        close == LastIndexOf(line, "]")
    IN  IF i1 > 1 /\ At(line, i2, "[") /\ close > i2 + 1
        THEN [ok |-> TRUE, node_id |-> SubSeq(line, 1, i1 - 1),
              attrs_str |-> SubSeq(line, i2 + 1, close - 1)]
        ELSE NoMatch

\* the match of r"(\w+)\s*=\s*([^,]+)" starting at p
MatchAttrAt(s, p) ==
    LET k == SkipWord(s, p)
        q == SkipSpace(s, k)
        v0 == SkipSpace(s, q + 1)
        vEnd == SkipUntil(s, v0, ",")
    IN  IF k > p /\ At(s, q, "=")
        THEN IF vEnd > v0
             THEN [ok |-> TRUE, key |-> SubSeq(s, p, k - 1),
                   value |-> SubSeq(s, v0, vEnd - 1), end |-> vEnd]
             ELSE IF v0 > q + 1
             THEN [ok |-> TRUE, key |-> SubSeq(s, p, k - 1),
                   value |-> SubSeq(s, v0 - 1, v0 - 1), end |-> v0]
             ELSE NoMatch
        ELSE NoMatch

RECURSIVE FindAttrs(_, _, _)
\* the loop over re.finditer: attrs[key.strip()] = value.strip().strip("'\"")
FindAttrs(s, p, attrs) ==
    IF p > Len(s) THEN attrs
    ELSE LET m == MatchAttrAt(s, p)
         IN  IF m.ok
             THEN FindAttrs(s, m.end, SetItem(attrs, Strip(m.key), StripQuotes(Strip(m.value))))
             ELSE FindAttrs(s, p + 1, attrs)

ShapeNames ==
    << <<"RECTANGLE", <<"R", "E", "C", "T", "A", "N", "G", "L", "E">> >>,
       <<"ELLIPSE", <<"E", "L", "L", "I", "P", "S", "E">> >>,
       <<"DIAMOND", <<"D", "I", "A", "M", "O", "N", "D">> >>,
       <<"CIRCLE", <<"C", "I", "R", "C", "L", "E">> >>,
       <<"TRIANGLE", <<"T", "R", "I", "A", "N", "G", "L", "E">> >>,
       <<"HEXAGON", <<"H", "E", "X", "A", "G", "O", "N">> >>,
       <<"COMPONENT", <<"C", "O", "M", "P", "O", "N", "E", "N", "T">> >>,
       <<"PARALLELOGRAM",
         <<"P", "A", "R", "A", "L", "L", "E", "L", "O", "G", "R", "A", "M">> >>,
       <<"ROUNDED_RECTANGLE",
         <<"R", "O", "U", "N", "D", "E", "D", "_", "R", "E", "C", "T", "A", "N", "G", "L", "E">> >> >>

\* NodeShape[shape_name], RECTANGLE on KeyError
ShapeByName(shape_name) ==
    IF \E i \in 1..Len(ShapeNames) : ShapeNames[i][2] = shape_name
    THEN Shape(ShapeNames[CHOOSE i \in 1..Len(ShapeNames) : ShapeNames[i][2] = shape_name][1])
    ELSE Shape("RECTANGLE")

Shape_key == <<"s", "h", "a", "p", "e">>
Label_key == <<"l", "a", "b", "e", "l">>

\* TextualDSL._parse_node_definition
_parse_node_definition(g, node_id, attrs_str) ==
    LET attrs == FindAttrs(attrs_str, 1, <<>>)
        shape == IF HasKey(attrs, Shape_key)
                 THEN ShapeByName(Upper(Get(attrs, Shape_key)))
                 ELSE Shape("RECTANGLE")
        label == IF HasKey(attrs, Label_key) THEN Get(attrs, Label_key) ELSE node_id
    IN  _create_node(g, node_id, label, shape, NoKw)

\* TextualDSL._parse_connection
_parse_connection(g, from_node, to_node, label, modifiers) ==
    LET style ==
            IF ~Truthy(modifiers) THEN Style("SOLID")
            ELSE IF Contains(modifiers, <<"d", "a", "s", "h", "e", "d">>) THEN Style("DASHED")
            ELSE IF Contains(modifiers, <<"d", "o", "t", "t", "e", "d">>) THEN Style("DOTTED")
            ELSE IF Contains(modifiers, <<"b", "o", "l", "d">>) THEN Style("BOLD")
            ELSE Style("SOLID")
    IN  connect(g, from_node, to_node, label, style)

\* re.match(r"^\w+$", line)
MatchBare(line) == line # <<>> /\ \A i \in 1..Len(line) : IsWord(line[i])

\* TextualDSL._parse_line
_parse_line(g, line) ==
    LET c == MatchConnection(line)
        n == MatchNodeDef(line)
    IN  IF c.ok THEN _parse_connection(g, c.from_node, c.to_node, c.label, c.modifiers)
        ELSE IF n.ok THEN _parse_node_definition(g, n.node_id, n.attrs_str)
        ELSE IF MatchBare(line) THEN role_node(g, "process", line, None)
        ELSE Ret(g, "DSLParseError", None)

\* a line of whitespace only
IsBlank(line) == Strip(line) = <<>>

RECURSIVE DropLeadingBlank(_)
DropLeadingBlank(text) ==
    IF text # <<>> /\ IsBlank(Head(text)) THEN DropLeadingBlank(Tail(text)) ELSE text

RECURSIVE DropTrailingBlank(_)
DropTrailingBlank(text) ==
    IF text # <<>> /\ IsBlank(text[Len(text)])
    THEN DropTrailingBlank(SubSeq(text, 1, Len(text) - 1)) ELSE text

\* dsl_text.strip().split("\n"): the text without its leading and trailing
\* whitespace, newlines included; the empty text splits into one empty line
StripSplit(text) ==
    LET t == DropTrailingBlank(DropLeadingBlank(text))
    IN  IF t = <<>> THEN << <<>> >>
        ELSE [i \in 1..Len(t) |->
                 IF i = 1 /\ i = Len(t) THEN Strip(t[i])
                 ELSE IF i = 1 THEN LStrip(t[i])
                 ELSE IF i = Len(t) THEN RStrip(t[i])
                 ELSE t[i]]

RECURSIVE ParseLines_continue(_, _, _)
\* a variant that reports the first failing line and goes on applying the rest
ParseLines_continue(g, lines, line_number) ==
    IF line_number >= Len(lines)
    THEN [g |-> g, err |-> "none", line_number |-> 0, line |-> None, cause |-> "none"]
    ELSE LET n == line_number + 1
             line == Strip(lines[n])
         IN  IF line = <<>> \/ Head(line) = "#" THEN ParseLines_continue(g, lines, n)
             ELSE LET r == _parse_line(g, line)
                      rest == ParseLines_continue(r.g, lines, n)
                  IN  IF r.err # "none"
                      THEN [g |-> rest.g, err |-> "DSLParseError", line_number |-> n,
                            line |-> line, cause |-> r.err]
                      ELSE rest

RECURSIVE ParseLines(_, _, _)
\* the loop of parse_dsl from line number line_number + 1
ParseLines(g, lines, line_number) ==
    IF line_number >= Len(lines)
    THEN [g |-> g, err |-> "none", line_number |-> 0, line |-> None, cause |-> "none"]
    ELSE LET n == line_number + 1
             line == Strip(lines[n])
         IN  IF line = <<>> \/ Head(line) = "#" THEN ParseLines(g, lines, n)
             ELSE LET r == _parse_line(g, line)
                  IN  IF r.err # "none"
                      THEN [g |-> r.g, err |-> "DSLParseError", line_number |-> n,
                            line |-> line, cause |-> r.err]
                      ELSE ParseLines(r.g, lines, n)

\* a variant that remembers the previous line and skips a line that repeats it
parse_dsl_skip_repeat(g, dsl_text) ==
    LET lines == StripSplit(dsl_text)
    IN  ParseLines(g, [i \in 1..Len(lines) |->
                          IF i > 1 /\ lines[i] = lines[i - 1] THEN <<>> ELSE lines[i]], 0)

\* TextualDSL.parse_dsl
parse_dsl(g, dsl_text) == ParseLines(g, StripSplit(dsl_text), 0)

----------------------------------------------------------------------------
(* The interpreter as a state machine: one action per public operation. *)

G == [nodes |-> nodes, edges |-> edges, clusters |-> clusters,
      current_cluster |-> current_cluster, graph_attrs |-> graph_attrs, theme |-> theme,
      theme_config |-> theme_config]

NL == [last_node |-> last_node, pending_label |-> pending_label]

Result(op, args, err, out) == [op |-> op, args |-> args, err |-> err, out |-> out]

\* the interpreter's fields become those of g
Becomes(g) ==
    /\ nodes' = g.nodes
    /\ edges' = g.edges
    /\ clusters' = g.clusters
    /\ current_cluster' = g.current_cluster
    /\ graph_attrs' = g.graph_attrs
    /\ theme' = g.theme
    /\ theme_config' = g.theme_config

ChainBecomes(nl) ==
    /\ last_node' = nl.last_node
    /\ pending_label' = nl.pending_label

RECURSIVE SumLen(_, _)
SumLen(cs, field) ==
    IF cs = <<>> THEN 0 ELSE Len(cs[1][2][field]) + SumLen(Tail(cs), field)

\* the edges of the model, and the nodes held by clusters
EdgeCount(g) == Len(g.edges) + SumLen(g.clusters, "edges")
ClusterNodeCount(g) == SumLen(g.clusters, "nodes")

\* the size of the model: its edges, the nodes its clusters hold and the open
\* cluster blocks
Size == EdgeCount(G) + ClusterNodeCount(G) + Len(cluster_frames)

\* bounds on the size: of the scope machine, and of the machine of all idioms
MaxSize == 3
MaxIdiomSize == 2

\* strings the actions draw from
IdA == <<"A">>
IdB == <<"B">>
IdC == <<"C">>
IdBSpace == <<"B", " ">>
IdDigit == <<"1", "A">>
LabelX == <<"x">>
LabelGo == <<"g", "o">>
LabelYes == <<"Y", "e", "s">>
LabelNul == <<"x", NUL>>
NameC == <<"c">>
NameD == <<"d">>
Arrow == <<" ", "-", ">", " ">>
Colon == <<" ", ":", " ">>

InitResult == Result("init", <<>>, "none", None)

Init ==
    /\ nodes = <<>>
    /\ edges = <<>>
    /\ clusters = <<>>
    /\ current_cluster = None
    /\ theme = "default"
    /\ theme_config = get_theme_config(theme)
    /\ graph_attrs = << <<"bgcolor", theme_config.bg_color>>, <<"rankdir", "TB">> >>
    /\ cluster_frames = <<>>
    /\ last_node = None
    /\ pending_label = None
    /\ entry_nodes = <<>>
    /\ result = InitResult

\* flow.node(node_id, label, shape, **kwargs)
CreateNode(node_id, label, shape, kwargs) ==
    \E r \in {_create_node(G, node_id, label, shape, kwargs)} :
        /\ Becomes(r.g)
        /\ result' = Result("create_node", <<node_id, label, shape, kwargs>>, r.err, None)
        /\ UNCHANGED <<cluster_frames, last_node, pending_label, entry_nodes>>

\* flow.start / process / decision / end / input_output (node_id, label)
RoleNode(role, node_id, label) ==
    \E r \in {role_node(G, role, node_id, label)} :
        /\ Becomes(r.g)
        /\ result' = Result(role, <<node_id, label>>, r.err, r.value)
        /\ UNCHANGED <<cluster_frames, last_node, pending_label, entry_nodes>>

\* flow.connect(from_node, to_node, label, style)
CreateEdge(from_node, to_node, label, style) ==
    \E r \in {connect(G, from_node, to_node, label, style)} :
        /\ Becomes(r.g)
        /\ result' = Result("create_edge", <<from_node, to_node, label>>, r.err, None)
        /\ UNCHANGED <<cluster_frames, last_node, pending_label, entry_nodes>>

\* with flow.cluster(name, label): the block is entered
ClusterEnter(name, label) ==
    \E r \in {cluster_enter(G, name, label, <<>>)} :
        /\ Becomes(r.g)
        /\ cluster_frames' = Append(cluster_frames, r.previous_cluster)
        /\ entry_nodes' = Append(entry_nodes,
               IF InCluster(G) THEN Get(clusters, current_cluster).nodes ELSE <<>>)
        /\ result' = Result("cluster_enter", <<name, label>>, "none", None)
        /\ UNCHANGED <<last_node, pending_label>>

\* the innermost cluster block is left, by its end or by an exception
ClusterExit ==
    /\ cluster_frames # <<>>
    /\ Becomes(cluster_exit(G, cluster_frames[Len(cluster_frames)]))
    /\ cluster_frames' = SubSeq(cluster_frames, 1, Len(cluster_frames) - 1)
    /\ entry_nodes' = SubSeq(entry_nodes, 1, Len(entry_nodes) - 1)
    /\ result' = Result("cluster_exit", <<>>, "none",
                        <<cluster_frames[Len(cluster_frames)], entry_nodes[Len(entry_nodes)]>>)
    /\ UNCHANGED <<last_node, pending_label>>

\* flow.set_graph_attr(key, value)
SetGraphAttr(key, value) ==
    /\ Becomes(set_graph_attr(G, key, value))
    /\ result' = Result("set_graph_attr", <<key, value>>, "none", None)
    /\ UNCHANGED <<cluster_frames, last_node, pending_label, entry_nodes>>

\* flow.to_dot()
ToDot ==
    \E r \in {to_dot(G)} :
        /\ result' = Result("to_dot", <<>>, r.err, r.lines)
        /\ UNCHANGED <<nodes, edges, clusters, current_cluster, graph_attrs, theme, theme_config,
                   cluster_frames, last_node, pending_label, entry_nodes>>

\* an operation of the operator chain has returned r
Chained(op, args, ret) ==
    \E r \in {ret} :
        /\ Becomes(r.g)
        /\ ChainBecomes(r.nl)
        /\ result' = Result(op, args, r.err, None)
        /\ UNCHANGED <<cluster_frames, entry_nodes>>

\* flow >> other
Rshift(other) == Chained("rshift", <<other>>, nl_rshift(G, NL, other))

\* flow | other
OrLabel(other) == Chained("or", <<other>>, nl_or(G, NL, other))

\* flow[key]
GetItem(key) == Chained("getitem", <<key>>, nl_getitem(G, NL, key))

\* flow // other
FloorDiv(other) == Chained("floordiv", <<other>>, nl_floordiv(G, NL, other))

\* flow.nl.reset()
Reset == Chained("reset", <<>>, nl_reset(G, NL))

\* flow.parse_dsl(dsl_text)
ParseDsl(dsl_text) ==
    \E r \in {parse_dsl(G, dsl_text)} :
        /\ Becomes(r.g)
        /\ result' = Result("parse_dsl", <<dsl_text>>, r.err,
                            <<r.line_number, r.line, r.cause>>)
        /\ UNCHANGED <<cluster_frames, last_node, pending_label, entry_nodes>>

NodeInputs == {<<IdA, LabelX>>, <<IdDigit, LabelX>>, <<IdA, LabelNul>>}
EdgeInputs == {<<IdA, IdBSpace, LabelGo>>, <<IdBSpace, IdA, LabelNul>>}
ClusterNameInputs == {NameC, NameD}
DslInputs == {<< IdA \o Arrow \o IdB >>, << IdB >>}

\* the scope machine: nodes, edges, cluster blocks and the serializer
Next ==
    \/ \E in \in NodeInputs :
          CreateNode(in[1], in[2], Shape("RECTANGLE"), NoKw) /\ (Size <= MaxSize)'
    \/ RoleNode("decision", IdB, None) /\ (Size <= MaxSize)'
    \/ \E in \in EdgeInputs :
          CreateEdge(in[1], in[2], in[3], Style("SOLID")) /\ (Size <= MaxSize)'
    \/ \E n \in ClusterNameInputs : ClusterEnter(n, LabelX) /\ (Size <= MaxSize)'
    \/ ClusterExit
    \/ ToDot

Spec == Init /\ [][Next]_vars

\* the machine of all idioms: fluent calls, cluster blocks, the operator chain
\* and the DSL
NextIdioms ==
    \/ \E in \in {<<IdA, LabelX>>} :
          CreateNode(in[1], in[2], Shape("RECTANGLE"), NoKw) /\ (Size <= MaxIdiomSize)'
    \/ RoleNode("decision", IdB, None) /\ (Size <= MaxIdiomSize)'
    \/ \E in \in {<<IdA, IdBSpace, None>>} :
          CreateEdge(in[1], in[2], in[3], Style("SOLID")) /\ (Size <= MaxIdiomSize)'
    \/ \E n \in {NameC} : ClusterEnter(n, LabelX) /\ (Size <= MaxIdiomSize)'
    \/ ClusterExit
    \/ SetGraphAttr("rankdir", "LR")
    \/ ToDot
    \/ \E x \in {IdA} : Rshift(x) /\ (Size <= MaxIdiomSize)'
    \/ OrLabel(LabelGo)
    \/ GetItem(LabelYes)
    \/ FloorDiv(IdB) /\ (Size <= MaxIdiomSize)'
    \/ Reset
    \/ \E t \in DslInputs : ParseDsl(t) /\ (Size <= MaxIdiomSize)'

SpecIdioms == Init /\ [][NextIdioms]_vars

\* the length of the identifiers tried, and their characters
MaxIdLen == 2
IdAlphabet == {"A", "1", "_", " ", "-", "[", "\n"}
IdStrings == UNION {[1..k -> IdAlphabet] : k \in 0..MaxIdLen}

\* one node creation with any identifier, at top level or in an open cluster
NextNodeId ==
    \/ \E id \in IdStrings :
          /\ nodes = <<>> /\ ClusterNodeCount(G) = 0
          /\ CreateNode(id, LabelX, Shape("RECTANGLE"), NoKw)
    \/ /\ nodes = <<>> /\ cluster_frames = <<>>
       /\ ClusterEnter(NameC, LabelX)

SpecNodeId == Init /\ [][NextNodeId]_vars

\* connection lines, and the texts made of at most MaxLines of them
ConnAB == IdA \o Arrow \o IdB
ConnBC == IdB \o Arrow \o IdC
ConnLines ==
    {ConnAB, ConnBC, ConnAB \o Colon \o LabelYes, ConnBC \o Colon \o LabelGo,
     IdC \o Arrow \o IdA, IdA \o <<"-", ">">> \o IdA,
     IdB \o Arrow \o IdA \o Colon \o LabelX,
     IdC \o <<" ", "{", "d", "a", "s", "h", "e", "d", "}">> \o Arrow \o IdB,
     IdA \o Arrow \o IdC \o Colon \o LabelGo, IdC \o Arrow \o IdC}
MaxLines == 2
ConnTexts == UNION {[1..k -> ConnLines] : k \in 1..MaxLines}

\* one parse of a text of connection lines on the empty graph
NextDsl ==
    \E t \in ConnTexts :
        /\ result = InitResult
        /\ ParseDsl(t)

SpecDsl == Init /\ [][NextDsl]_vars

\* cluster names the scope-name machine draws from: the empty name and NameC
NameEmpty == <<>>
ScopeNameInputs == {NameEmpty, NameC}

\* the machine of cluster names: one node id, one edge, blocks of any name
NextScopeNames ==
    \/ CreateNode(IdA, LabelX, Shape("RECTANGLE"), NoKw) /\ (Size <= MaxSize)'
    \/ CreateEdge(IdA, IdA, LabelGo, Style("SOLID")) /\ (Size <= MaxSize)'
    \/ \E n \in ScopeNameInputs : ClusterEnter(n, LabelX) /\ (Size <= MaxSize)'
    \/ ClusterExit

SpecScopeNames == Init /\ [][NextScopeNames]_vars

\* the size bound of the chain machine
MaxChainSize == 2

\* the operator chain: >>, |, [], // and reset over two ids, with one declared
\* node and one cluster block
NextChain ==
    \/ RoleNode("decision", IdB, None) /\ (Size <= MaxChainSize)'
    \/ ClusterEnter(NameC, LabelX) /\ (Size <= MaxChainSize)'
    \/ ClusterExit
    \/ \E x \in {IdA, IdB} : Rshift(x) /\ (Size <= MaxChainSize)'
    \/ \E l \in {LabelGo, LabelNul} : OrLabel(l)
    \/ \E k \in {LabelYes, LabelNul} : GetItem(k)
    \/ \E x \in {IdA, IdB} : FloorDiv(x) /\ (Size <= MaxChainSize)'
    \/ Reset

SpecChain == Init /\ [][NextChain]_vars

\* statement lines of the DSL: blank, comment, bare identifiers, a connection, a
\* connection without a target, a connection followed by a second arrow, and a
\* node declaration followed by more text
BlankLine == <<>>
CommentLine == <<"#", " ", "c">>
ConnNoTarget == IdA \o <<" ", "-", ">">>
ConnChain == ConnAB \o Arrow \o IdC
DeclTrailing == IdA \o <<" ", "[", "a", "=", "b", "]", " ", "x">>
LineInputs ==
    {BlankLine, CommentLine, IdA, IdB, ConnAB, ConnNoTarget, ConnChain, DeclTrailing}

\* the texts made of at most MaxTextLines of these lines
MaxTextLines == 3
LineTexts == UNION {[1..k -> LineInputs] : k \in 1..MaxTextLines}

\* one parse of a text on the empty graph
NextParse ==
    \E t \in LineTexts :
        /\ result = InitResult
        /\ ParseDsl(t)

SpecParse == Init /\ [][NextParse]_vars

\* node declarations "ID [shape=..., label=...]": the shape values are the member
\* names, the hyphenated name of the rounded rectangle, a lower-case and a
\* mixed-case name, a member's value and a word that names nothing
ShapeHyphen ==
    <<"R", "O", "U", "N", "D", "E", "D", "-", "R", "E", "C", "T", "A", "N", "G", "L", "E">>
ShapeLower == <<"d", "i", "a", "m", "o", "n", "d">>
ShapeMixed == <<"D", "i", "a", "m", "o", "n", "d">>
ShapeValue == <<"r", "e", "c", "t">>
ShapeBogus == <<"b", "l", "o", "b">>
ShapeInputs ==
    {ShapeNames[i][2] : i \in 1..Len(ShapeNames)}
        \cup {ShapeHyphen, ShapeLower, ShapeMixed, ShapeValue, ShapeBogus, None}

\* label values: single-quoted, double-quoted, and quoted with a comma inside
LabelCheck == <<"'", "C", "h", "e", "c", "k", "?", "'">>
LabelDouble == <<"\"", "x", "\"">>
LabelComma == <<"'", "a", ",", "b", "'">>
LabelInputs == {LabelCheck, LabelDouble, LabelComma, None}

DeclInputs == [id : {IdA, IdB}, shape : ShapeInputs, label : LabelInputs]

OtherAttr == <<"c", "o", "l", "o", "r", "=", "r", "e", "d">>

\* the line "ID [shape=S, label=L]" of a declaration; "ID [color=red]" when it
\* gives neither
DeclLine(d) ==
    LET shape == Shape_key \o <<"=">> \o d.shape
        label == Label_key \o <<"=">> \o d.label
        attrs == IF d.shape # None /\ d.label # None THEN shape \o <<",", " ">> \o label
                 ELSE IF d.shape # None THEN shape
                 ELSE IF d.label # None THEN label
                 ELSE OtherAttr
    IN  d.id \o <<" ", "[">> \o attrs \o <<"]">>

\* one parse of one declaration on the empty graph
NextDecl ==
    \E d \in DeclInputs :
        /\ result = InitResult
        /\ ParseDsl(<<DeclLine(d)>>)

SpecDecl == Init /\ [][NextDecl]_vars

\* the size bound of the persistence machine
MaxPersistSize == 1

\* chain state across idioms: the operator chain over two ids, interleaved with a
\* fluent call, a cluster block, a parse and the serializer
NextPersist ==
    \/ RoleNode("decision", IdB, None) /\ (Size <= MaxPersistSize)'
    \/ ClusterEnter(NameC, LabelX) /\ (Size <= MaxPersistSize)'
    \/ ClusterExit
    \/ ToDot
    \/ ParseDsl(<<IdB>>) /\ (Size <= MaxPersistSize)'
    \/ \E x \in {IdA, IdB} : Rshift(x) /\ (Size <= MaxPersistSize)'
    \/ OrLabel(LabelGo)
    \/ GetItem(LabelYes)
    \/ FloorDiv(IdB) /\ (Size <= MaxPersistSize)'
    \/ Reset

SpecPersist == Init /\ [][NextPersist]_vars

\* identifiers written with and without a space, through the fluent calls, the
\* operator chain and the DSL
NextSpaces ==
    \/ \E role \in {"start", "process"}, x \in {IdA, IdBSpace} :
          RoleNode(role, x, None) /\ (Size <= MaxChainSize)'
    \/ CreateEdge(IdA, IdBSpace, None, Style("SOLID")) /\ (Size <= MaxChainSize)'
    \/ \E x \in {IdA, IdB, IdBSpace} : Rshift(x) /\ (Size <= MaxChainSize)'
    \/ FloorDiv(IdBSpace) /\ (Size <= MaxChainSize)'
    \/ OrLabel(LabelGo)
    \/ Reset
    \/ ParseDsl(<<ConnAB>>) /\ (Size <= MaxChainSize)'

SpecSpaces == Init /\ [][NextSpaces]_vars

\* a label with the characters the serializer has to escape
LabelAngle == <<"<", "\"", ">">>

\* labels on nodes and on clusters, and the serializer
NextEscape ==
    \/ \E l \in {LabelX, LabelAngle} :
          CreateNode(IdA, l, Shape("RECTANGLE"), NoKw) /\ (Size <= MaxSize)'
    \/ \E n \in {NameC, NameD}, l \in {LabelX, LabelAngle} :
          ClusterEnter(n, l) /\ (Size <= MaxSize)'
    \/ ClusterExit
    \/ ToDot

SpecEscape == Init /\ [][NextEscape]_vars

\* flow.edge(from_node, to_node, label, style, **kwargs)
CreateEdgeKw(from_node, to_node, label, style, kwargs) ==
    \E r \in {_create_edge(G, from_node, to_node, label, style, kwargs)} :
        /\ Becomes(r.g)
        /\ result' = Result("edge", <<from_node, to_node, label, style, kwargs>>, r.err, None)
        /\ UNCHANGED <<cluster_frames, last_node, pending_label, entry_nodes>>

\* style overrides given as keyword arguments
NodeKwInputs == {NoKw, [fillcolor |-> "red"], [color |-> "red", fontsize |-> "20"]}
EdgeKwInputs == {NoKw, [color |-> "red"]}

\* the size bound of the style machine
MaxStyleSize == 2

\* nodes and edges created with and without style overrides
NextStyle ==
    \/ \E x \in {IdA, IdB}, kw \in NodeKwInputs :
          CreateNode(x, LabelX, Shape("RECTANGLE"), kw) /\ (Size <= MaxStyleSize)'
    \/ RoleNode("end", IdA, None) /\ (Size <= MaxStyleSize)'
    \/ \E s \in {"SOLID", "DASHED"}, kw \in EdgeKwInputs :
          CreateEdgeKw(IdA, IdB, None, Style(s), kw) /\ (Size <= MaxStyleSize)'
    \/ CreateEdge(IdB, IdA, LabelGo, Style("SOLID")) /\ (Size <= MaxStyleSize)'

SpecStyle == Init /\ [][NextStyle]_vars

\* the size bound of the role machine, and the themes it starts from
MaxRoleSize == 1
ThemeInputs == {"default", "dark"}

\* DotInterpreter.__init__ with a theme of ThemeInputs
InitTheme ==
    /\ nodes = <<>>
    /\ edges = <<>>
    /\ clusters = <<>>
    /\ current_cluster = None
    /\ theme \in ThemeInputs
    /\ theme_config = get_theme_config(theme)
    /\ graph_attrs = << <<"bgcolor", theme_config.bg_color>>, <<"rankdir", "TB">> >>
    /\ cluster_frames = <<>>
    /\ last_node = None
    /\ pending_label = None
    /\ entry_nodes = <<>>
    /\ result = InitResult

\* the fluent shortcuts on two ids, with and without a label, at top level and in
\* a cluster block
NextRoles ==
    \/ \E role \in Roles, x \in {IdA, IdBSpace}, l \in {None, LabelX} :
          RoleNode(role, x, l) /\ (Size <= MaxRoleSize)'
    \/ ClusterEnter(NameC, LabelX) /\ (Size <= MaxRoleSize)'
    \/ ClusterExit

SpecRoles == InitTheme /\ [][NextRoles]_vars

\* texts of at most MaxLines lines among a blank line, two bare identifiers and a
\* connection
ReparseLines == {BlankLine, IdA, IdB, ConnAB}
ReparseTexts == UNION {[1..k -> ReparseLines] : k \in 1..MaxLines}

\* parse after parse on the same graph
NextReparse ==
    \E t \in ReparseTexts : ParseDsl(t) /\ (Size <= MaxSize)'

SpecReparse == Init /\ [][NextReparse]_vars

----------------------------------------------------------------------------
(* The claims *)

\* the ids of the nodes the model holds, at top level or in a cluster
HeldIds ==
    {nodes[i][2].id : i \in 1..Len(nodes)}
        \cup UNION {ClusterNodeIds(clusters[i][2]) : i \in 1..Len(clusters)}

\* [A-Za-z_][A-Za-z0-9_]*
IsIdentifier(s) ==
    /\ Len(s) >= 1
    /\ s[1] \in Letters \cup {"_"}
    /\ \A i \in 2..Len(s) : s[i] \in Letters \cup Digits \cup {"_"}

NoSpaces(s) == Replace(s, " ", <<>>)

\* C1 (as claimed): create_node(id, ...) succeeds and makes the node retrievable
\* exactly when id without its spaces matches [A-Za-z_][A-Za-z0-9_]*; for every
\* other string it raises ValidationError and creates no node.
C1_IdentifierGate ==
    result.op = "create_node" =>
        IF IsIdentifier(NoSpaces(result.args[1]))
        THEN result.err = "none" /\ NoSpaces(result.args[1]) \in HeldIds
        ELSE result.err = "ValidationError" /\ HeldIds = {}

\* C2: create_edge(a, b) raises NodeNotFoundError exactly when a or b (with its
\* spaces removed, as every identifier is) is the id of no node held at top
\* level or in any cluster, whatever the active scope and the nesting depth.
C2_EdgeLookupWholeModel ==
    [][result'.op = "create_edge" =>
          (result'.err = "NodeNotFoundError"
              <=> \/ NoSpaces(result'.args[1]) \notin HeldIds
                  \/ NoSpaces(result'.args[2]) \notin HeldIds)]_vars

\* C2 witness: with a cluster active, create_edge has succeeded on an endpoint
\* that only another cluster holds.
C2_Witness ==
    /\ result.op = "create_edge" /\ result.err = "none"
    /\ InCluster(G)
    /\ \E k \in 1..2 :
          /\ NoSpaces(result.args[k]) \notin ClusterNodeIds(Get(clusters, current_cluster))
          /\ ~HasKey(nodes, NoSpaces(result.args[k]))

RECURSIVE ClusterEdges(_)
\* the edges the clusters hold
ClusterEdges(cs) == IF cs = <<>> THEN <<>> ELSE cs[1][2].edges \o ClusterEdges(Tail(cs))

AllEdges == edges \o ClusterEdges(clusters)

\* C3 (as claimed): every edge stored at top level or in a cluster has both
\* endpoints among the ids of the nodes the model holds.
C3_NoDanglingEdge ==
    \A i \in 1..Len(AllEdges) :
        AllEdges[i].from_node \in HeldIds /\ AllEdges[i].to_node \in HeldIds

\* the model: everything but the chain state and the result
ModelUnchanged == UNCHANGED <<nodes, edges, clusters, graph_attrs, current_cluster>>

\* C4: when create_edge raises NodeNotFoundError, the nodes, the edges, the
\* clusters, the graph attributes and the active scope are as before the call.
C4_NotFoundChangesNothing ==
    [][(result'.op = "create_edge" /\ result'.err = "NodeNotFoundError")
          => ModelUnchanged]_vars

\* C4 witness: create_edge has raised NodeNotFoundError in a model that holds
\* nodes, an edge and an active cluster.
C4_Witness ==
    /\ result.op = "create_edge" /\ result.err = "NodeNotFoundError"
    /\ InCluster(G) /\ HeldIds # {} /\ AllEdges # <<>>

\* C5: when create_node or create_edge raises ValidationError, the model is as
\* before the call (what earlier calls did stays, and nothing is added).
C5_ValidationBeforeMutation ==
    [][(result'.op \in {"create_node", "create_edge"} /\ result'.err = "ValidationError")
          => ModelUnchanged]_vars

\* C5 witness: create_node has raised ValidationError for its label, with a valid
\* identifier, in a model where earlier calls stored a node and an edge.
C5_Witness ==
    /\ result.op = "create_node" /\ result.err = "ValidationError"
    /\ validate_node_id(NoSpaces(result.args[1])) = "none"
    /\ HeldIds # {} /\ AllEdges # <<>>

RECURSIVE Mentioned(_)
\* the ids the connection lines of a text mention, in order of first mention
Mentioned(text) ==
    IF text = <<>> THEN <<>>
    ELSE LET m == MatchConnection(text[Len(text)])
             before == Mentioned(SubSeq(text, 1, Len(text) - 1))
             seen == {before[i] : i \in 1..Len(before)}
             withFrom == IF m.from_node \in seen THEN before ELSE Append(before, m.from_node)
         IN  IF m.to_node \in seen \cup {m.from_node} THEN withFrom
             ELSE Append(withFrom, m.to_node)

RECURSIVE CreateAll(_, _)
\* create_node for every id of ids
CreateAll(g, ids) ==
    IF ids = <<>> THEN g
    ELSE CreateAll(_create_node(g, ids[1], ids[1], Shape("RECTANGLE"), NoKw).g, Tail(ids))

RECURSIVE ConnectAll(_, _)
\* create_edge once per line, in line order, with the line's label
ConnectAll(g, text) ==
    IF text = <<>> THEN g
    ELSE LET m == MatchConnection(text[1])
         IN  ConnectAll(_create_edge(g, m.from_node, m.to_node, m.label,
                                     Style("SOLID"), NoKw).g, Tail(text))

\* C6 (as claimed): parsing a text of connection lines on the empty graph succeeds
\* and yields the nodes and edges of creating every mentioned node and then one
\* edge per line.
C6_ParseEqualsCalls ==
    result.op = "parse_dsl" =>
        LET text == result.args[1]
            start == [G EXCEPT !.nodes = <<>>, !.edges = <<>>]
            want == ConnectAll(CreateAll(start, Mentioned(text)), text)
        IN  /\ result.err = "none"
            /\ {nodes[i][1] : i \in 1..Len(nodes)}
                 = {want.nodes[i][1] : i \in 1..Len(want.nodes)}
            /\ [i \in 1..Len(edges) |->
                    <<edges[i].from_node, edges[i].to_node, edges[i].label>>]
                 = [i \in 1..Len(want.edges) |->
                        <<want.edges[i].from_node, want.edges[i].to_node, want.edges[i].label>>]

\* the first fragments of a line
StartsWith(line, prefix) ==
    Len(line) >= Len(prefix) /\ SubSeq(line, 1, Len(prefix)) = prefix

HasLabel(line, label) ==
    Contains(line, <<"label=\"">> \o escape(label) \o <<"\"">>)

\* C7 (as claimed): for a graph of top-level nodes and edges, to_dot returns text
\* whose statements are one node statement per node, in insertion order, then one
\* edge statement "from -> to [...]" per edge, in declaration order, a labelled
\* edge carrying label="<label>".
C7_DotTextOfNodesThenEdges ==
    (result.op = "to_dot" /\ clusters = <<>>) =>
        /\ result.err = "none"
        /\ LET first == 1 + Len(graph_attrs) + 3
               stmt(i) == result.out[first + i]
           IN  /\ Len(result.out) = first + Len(nodes) + Len(edges) + 1
               /\ \A i \in 1..Len(nodes) :
                     StartsWith(stmt(i), <<"  ">> \o nodes[i][2].id \o <<" [">>)
               /\ \A j \in 1..Len(edges) :
                     /\ StartsWith(stmt(Len(nodes) + j),
                            <<"  ">> \o edges[j].from_node \o <<" -> ">>
                                \o edges[j].to_node \o <<" [">>)
                     /\ Truthy(edges[j].label)
                          => HasLabel(stmt(Len(nodes) + j), edges[j].label)

\* the ids of a sequence of nodes
IdsOf(ns) == {ns[i].id : i \in 1..Len(ns)}

\* C8 (as claimed): leaving a cluster block makes the scope that was active at its
\* entry the active one, and a node created right after leaving an inner block
\* is stored in the outer cluster, which still holds every node it held when the
\* inner block was entered.
C8_ExitRestoresOuterScope ==
    [][/\ result'.op = "cluster_exit" =>
             current_cluster' = cluster_frames[Len(cluster_frames)]
       /\ (/\ result.op = "cluster_exit" /\ Truthy(result.out[1])
           /\ result'.op = "create_node" /\ result'.err = "none")
             => /\ HasKey(clusters', result.out[1])
                /\ LET held == Get(clusters', result.out[1]).nodes
                   IN  /\ held # <<>>
                       /\ held[Len(held)].id = NoSpaces(result'.args[1])
                       /\ IdsOf(result.out[2]) \subseteq IdsOf(held)]_vars

\* the nodes of the active scope
ScopeNodes ==
    IF InCluster(G) THEN Get(clusters, current_cluster).nodes ELSE Values(nodes)

\* C9 (as claimed): after create_node the active scope holds exactly one node with
\* that id, and it carries the label and the shape of that call.
C9_RecreateReplaces ==
    (result.op = "create_node" /\ result.err = "none") =>
        LET same == {i \in 1..Len(ScopeNodes) : ScopeNodes[i].id = NoSpaces(result.args[1])}
        IN  /\ Cardinality(same) = 1
            /\ \A i \in same :
                  ScopeNodes[i].label = result.args[2] /\ ScopeNodes[i].shape = result.args[3]

RECURSIVE ClusterNodes(_)
\* the nodes the clusters hold
ClusterNodes(cs) == IF cs = <<>> THEN <<>> ELSE cs[1][2].nodes \o ClusterNodes(Tail(cs))

AllNodes == Values(nodes) \o ClusterNodes(clusters)

\* C10 (as claimed): no node id occurs more than once across the top-level nodes
\* and the nodes of all clusters.
C10_OneOwnerPerId ==
    \A i, j \in 1..Len(AllNodes) : AllNodes[i].id = AllNodes[j].id => i = j

\* the edges of the scope the code stores into
ScopeEdges ==
    IF InCluster(G) THEN Get(clusters, current_cluster).edges ELSE edges

\* the last element of a non-empty sequence
Last(s) == s[Len(s)]

\* C11 (as claimed): inside a cluster block, whatever the cluster's name, a node
\* or an edge just created is the last one of the block's cluster and the
\* top-level nodes and edges are unchanged; outside any block it is stored at top
\* level and the clusters are unchanged.
C11_StoredInActiveScope ==
    [][(result'.op \in {"create_node", "create_edge"} /\ result'.err = "none") =>
          IF cluster_frames # <<>>
          THEN /\ nodes' = nodes /\ edges' = edges
               /\ HasKey(clusters, current_cluster)
               /\ LET before == Get(clusters, current_cluster)
                      after == Get(clusters', current_cluster)
                  IN  IF result'.op = "create_node"
                      THEN /\ Len(after.nodes) = Len(before.nodes) + 1
                           /\ Last(after.nodes).id = NoSpaces(result'.args[1])
                      ELSE /\ Len(after.edges) = Len(before.edges) + 1
                           /\ Last(after.edges).from_node = NoSpaces(result'.args[1])
                           /\ Last(after.edges).to_node = NoSpaces(result'.args[2])
          ELSE /\ clusters' = clusters
               /\ IF result'.op = "create_node"
                  THEN HasKey(nodes', NoSpaces(result'.args[1]))
                  ELSE /\ Len(edges') = Len(edges) + 1
                       /\ Last(edges').from_node = NoSpaces(result'.args[1])
                       /\ Last(edges').to_node = NoSpaces(result'.args[2])]_vars

\* an edge that differs from e in nothing but its place
SameEdge(e, f) ==
    e.from_node = f.from_node /\ e.to_node = f.to_node /\ e.label = f.label

\* C12: each successful create_edge appends one edge, with the call's endpoints
\* and label, to the edge sequence of the scope it stores into, and leaves every
\* earlier edge of that sequence in its place, also when an equal edge is there.
C12_EdgesAppend ==
    [][(result'.op = "create_edge" /\ result'.err = "none") =>
          /\ Len(ScopeEdges') = Len(ScopeEdges) + 1
          /\ SubSeq(ScopeEdges', 1, Len(ScopeEdges)) = ScopeEdges
          /\ Last(ScopeEdges').from_node = NoSpaces(result'.args[1])
          /\ Last(ScopeEdges').to_node = NoSpaces(result'.args[2])
          /\ Last(ScopeEdges').label = result'.args[3]]_vars

\* C12 witness: create_edge has succeeded and the scope's last two edges have the
\* same endpoints and the same label.
C12_Witness ==
    /\ result.op = "create_edge" /\ result.err = "none"
    /\ Len(ScopeEdges) >= 2
    /\ SameEdge(ScopeEdges[Len(ScopeEdges)], ScopeEdges[Len(ScopeEdges) - 1])

\* C13 (as claimed): every node label and every edge label the model holds is one
\* label validation accepts: at most 1000 characters, no NUL.
C13_StoredLabelsValid ==
    /\ \A i \in 1..Len(AllNodes) : validate_label(AllNodes[i].label) = "none"
    /\ \A i \in 1..Len(AllEdges) : validate_label(AllEdges[i].label) = "none"

\* C18 (as claimed): flow >> x succeeds and makes x the last node; with no last
\* node it creates node x and adds no edge; with last node n it appends the edge
\* n -> x carrying the pending label and clears the pending label.
C18_ChainAdvance ==
    [][result'.op = "rshift" =>
          /\ result'.err = "none"
          /\ last_node' = result'.args[1]
          /\ IF ~Truthy(last_node)
             THEN /\ result'.args[1] \in HeldIds'
                  /\ AllEdges' = AllEdges
                  /\ pending_label' = pending_label
             ELSE /\ Len(ScopeEdges') = Len(ScopeEdges) + 1
                  /\ SubSeq(ScopeEdges', 1, Len(ScopeEdges)) = ScopeEdges
                  /\ Last(ScopeEdges').from_node = last_node
                  /\ Last(ScopeEdges').to_node = result'.args[1]
                  /\ Last(ScopeEdges').label = pending_label
                  /\ pending_label' = None]_vars

\* chain-advance as the claim describes it, creating its edge with the given style
AdvanceStyled(g, nl, other, style) ==
    IF validate_node_id(other) # "none" THEN NlRet(g, nl, validate_node_id(other))
    ELSE IF Truthy(nl.last_node)
    THEN LET r == connect(g, nl.last_node, other, nl.pending_label, style)
         IN  IF r.err # "none" THEN NlRet(g, nl, r.err)
             ELSE NlRet(r.g, [last_node |-> other, pending_label |-> None], "none")
    ELSE LET r == role_node(g, "start", other, None)
         IN  IF r.err # "none" THEN NlRet(g, nl, r.err)
             ELSE NlRet(r.g, [nl EXCEPT !.last_node = other], "none")

\* C19 (as claimed): flow // x leaves the model and the chain state that
\* flow >> x would leave from the same state, the edge created being dashed.
C19_DashedLikeAdvance ==
    [][result'.op = "floordiv" =>
          \E want \in {AdvanceStyled(G, NL, result'.args[1], Style("DASHED"))} :
              /\ result'.err = want.err
              /\ nodes' = want.g.nodes
              /\ edges' = want.g.edges
              /\ clusters' = want.g.clusters
              /\ last_node' = want.nl.last_node
              /\ pending_label' = want.nl.pending_label]_vars

\* es2 is es with the label of its last edge to n set to key
Relabelled(es, es2, n, key) ==
    /\ LastEdgeTo(es, n) # 0
    /\ es2 = [es EXCEPT ![LastEdgeTo(es, n)].label = key]

\* C20 (as claimed): flow[key] sets the label of the latest edge to the last node,
\* at top level or in a cluster, and changes nothing else; with no last node or
\* no edge to it, nothing changes. (The latest edge of the model is the last such
\* edge of the sequence that holds it.)
C20_RelabelLatestEdge ==
    [][result'.op = "getitem" =>
          /\ nodes' = nodes /\ last_node' = last_node /\ pending_label' = pending_label
          /\ IF Truthy(last_node) /\ \E i \in 1..Len(AllEdges) : AllEdges[i].to_node = last_node
             THEN \/ /\ Relabelled(edges, edges', last_node, result'.args[1])
                     /\ clusters' = clusters
                  \/ /\ edges' = edges
                     /\ \E k \in 1..Len(clusters) :
                           /\ Relabelled(clusters[k][2].edges, clusters'[k][2].edges,
                                         last_node, result'.args[1])
                           /\ clusters' = [clusters EXCEPT ![k][2].edges = clusters'[k][2].edges]
             ELSE edges' = edges /\ clusters' = clusters]_vars

\* the index after the target of the connection a line starts with
ConnectionEnd(line) ==
    LET i1 == SkipWord(line, 1)
        i2 == SkipSpace(line, i1)
        close == SkipUntil(line, i2 + 1, "}")
        hasMod == At(line, i2, "{") /\ close <= Len(line) /\ close > i2 + 1
        i4 == SkipSpace(line, IF hasMod THEN close + 1 ELSE i2)
    IN  SkipWord(line, SkipSpace(line, i4 + 2))

\* the whole line is ID {modifier}? -> ID (: LABEL)?
WholeConnection(line) ==
    /\ MatchConnection(line).ok
    /\ \/ MatchConnection(line).label # None
       \/ SkipSpace(line, ConnectionEnd(line)) > Len(line)

\* the whole line is ID [key=value, ...]
WholeDeclaration(line) == MatchNodeDef(line).ok /\ line[Len(line)] = "]"

\* the whole line is one of the three statements of the grammar
WellFormed(line) == WholeConnection(line) \/ WholeDeclaration(line) \/ MatchBare(line)

\* a line that holds a statement: neither blank nor a comment
IsStatement(line) == Strip(line) # <<>> /\ Head(Strip(line)) # "#"

RECURSIVE FirstFailure(_, _, _, _)
\* the statements of text applied in order from line k of the text: the number
\* of the first line that fails, 0 when none does, and the model before that
\* line; with strict, a line that is not well formed fails
FirstFailure(g, text, k, strict) ==
    IF k > Len(text) THEN [line_number |-> 0, g |-> g]
    ELSE IF ~IsStatement(text[k]) THEN FirstFailure(g, text, k + 1, strict)
    ELSE IF strict /\ ~WellFormed(Strip(text[k])) THEN [line_number |-> k, g |-> g]
    ELSE LET r == _parse_line(g, Strip(text[k]))
         IN  IF r.err # "none" THEN [line_number |-> k, g |-> g]
             ELSE FirstFailure(r.g, text, k + 1, strict)

\* the interpreter's fields are those of g after the step
BecameModel(g) ==
    /\ nodes' = g.nodes /\ edges' = g.edges /\ clusters' = g.clusters
    /\ graph_attrs' = g.graph_attrs /\ current_cluster' = g.current_cluster

\* C14 (as claimed): a failing parse_dsl raises DSLParseError with the 1-based
\* number of the failing line, counted from the first line of the text, blank
\* and comment lines included, and with that line's text.
C14_ErrorCarriesLineNumber ==
    [][(result'.op = "parse_dsl" /\ result'.err # "none") =>
          LET text == result'.args[1]
              f == FirstFailure(G, text, 1, FALSE)
          IN  /\ result'.err = "DSLParseError"
              /\ f.line_number # 0
              /\ result'.out[1] = f.line_number
              /\ result'.out[2] = Strip(text[f.line_number])]_vars

\* C15: when parse_dsl fails, the model is the one obtained by applying every
\* statement before the failing line: the failing line and the lines after it
\* leave nothing (partial application, for every input).
C15_FailureKeepsEarlierLines ==
    [][(result'.op = "parse_dsl" /\ result'.err # "none") =>
          LET f == FirstFailure(G, result'.args[1], 1, FALSE)
          IN  f.line_number # 0 /\ BecameModel(f.g)]_vars

\* C15 witness: a parse has failed after a line that created a node, at a line
\* followed by a bare identifier the model does not hold.
C15_Witness ==
    /\ result.op = "parse_dsl" /\ result.err = "DSLParseError"
    /\ nodes # <<>>
    /\ \E k \in 2..(Len(result.args[1]) - 1) :
          /\ result.out[2] = Strip(result.args[1][k])
          /\ ~WellFormed(result.args[1][k])
          /\ MatchBare(result.args[1][k + 1])
          /\ result.args[1][k + 1] \notin HeldIds

\* C16 (as claimed): a text with a statement line that is not, in its entirety, a
\* connection, a node declaration or a bare identifier makes parse_dsl raise
\* DSLParseError, and the model is the one the statements before the first
\* failing line yield: the line creates no node and no edge.
C16_MalformedLineRejected ==
    [][(/\ result'.op = "parse_dsl"
        /\ \E k \in 1..Len(result'.args[1]) :
              IsStatement(result'.args[1][k]) /\ ~WellFormed(Strip(result'.args[1][k])))
          => /\ result'.err = "DSLParseError"
             /\ BecameModel(FirstFailure(G, result'.args[1], 1, TRUE).g)]_vars

\* the shape names the enumeration is described with, upper-cased
ClaimedShapeNames == [ShapeNames EXCEPT ![9] = <<"ROUNDED_RECTANGLE", ShapeHyphen>>]

\* the member a shape value names, compared case-insensitively; rectangle when it
\* names none or is absent
ClaimedShape(value) ==
    IF value # None /\ \E i \in 1..Len(ClaimedShapeNames) : ClaimedShapeNames[i][2] = Upper(value)
    THEN Shape(ClaimedShapeNames[CHOOSE i \in 1..Len(ClaimedShapeNames) :
                                     ClaimedShapeNames[i][2] = Upper(value)][1])
    ELSE Shape("RECTANGLE")

\* a value without its surrounding quotes
Unquoted(value) ==
    IF Len(value) >= 2 /\ value[1] \in {"'", "\""} /\ value[Len(value)] = value[1]
    THEN SubSeq(value, 2, Len(value) - 1)
    ELSE value

\* C17 (as claimed): a declaration 'ID [key=value, ...]' creates node ID with the
\* shape its shape value names case-insensitively (rectangle, ..., rounded-rectangle),
\* rectangle when the value names no member or is absent, and with the label
\* value without its surrounding quotes, or ID when no label is given.
C17_DeclarationShapeAndLabel ==
    [][\A d \in DeclInputs :
          (result'.op = "parse_dsl" /\ result'.args = << <<DeclLine(d)>> >>) =>
              /\ result'.err = "none"
              /\ HasKey(nodes', d.id)
              /\ Get(nodes', d.id).shape = ClaimedShape(d.shape)
              /\ Get(nodes', d.id).label =
                     IF d.label = None THEN d.id ELSE Unquoted(d.label)]_vars

\* the operations of the operator chain, and reset
ChainOps == {"rshift", "or", "getitem", "floordiv", "reset"}

\* C21: the chain's last node and pending label are changed only by chain
\* operations and reset: fluent calls, parse_dsl, cluster entry and exit and
\* to_dot leave both as they were; a successful '>> x' made while a last node is
\* held, whatever happened in between, adds the edge from that node to x and
\* creates no node; reset sets both to none.
C21_ChainStatePersists ==
    [][/\ result'.op \notin ChainOps => UNCHANGED <<last_node, pending_label>>
       /\ (result'.op = "rshift" /\ result'.err = "none" /\ Truthy(last_node)) =>
              /\ ScopeEdges' # <<>>
              /\ Len(ScopeEdges') = Len(IF InCluster(G) THEN Get(clusters, current_cluster).edges
                                        ELSE edges) + 1
              /\ Last(ScopeEdges').from_node = last_node
              /\ Last(ScopeEdges').to_node = result'.args[1]
              /\ nodes' = nodes
              /\ last_node' = result'.args[1]
       /\ result'.op = "reset" => last_node' = None /\ pending_label' = None]_vars

\* C21 witness: a chain operation has connected the last node of an earlier chain
\* expression after a parse came in between: the edge A -> B is held, and B is the
\* rectangle that parse_dsl created after the chain had created A.
C21_Witness ==
    /\ result.op = "rshift" /\ result.err = "none"
    /\ last_node = IdB
    /\ edges # <<>>
    /\ Last(edges).from_node = IdA /\ Last(edges).to_node = IdB
    /\ Len(nodes) = 2 /\ nodes[1][1] = IdA /\ nodes[2][1] = IdB
    /\ nodes[2][2].shape = Shape("RECTANGLE")

\* C22 (as claimed): the operator chain accepts the identifiers the fluent calls
\* accept and they denote the same stored node: '>> x' on a chain without a last
\* node does what start(x) does, and with a last node n what connect(n, x) with
\* the pending label does: the same exception if any, the same nodes and edges.
C22_ChainAcceptsFluentIds ==
    [][result'.op = "rshift" =>
          \E want \in {IF Truthy(last_node)
                       THEN connect(G, last_node, result'.args[1], pending_label, Style("SOLID"))
                       ELSE role_node(G, "start", result'.args[1], None)} :
              /\ result'.err = want.err
              /\ BecameModel(want.g)]_vars

\* the index of the first line of lines equal to line after index from, 0 when
\* there is none
LineIndex(lines, line, from) ==
    IF \E i \in (from + 1)..Len(lines) : lines[i] = line
    THEN CHOOSE i \in (from + 1)..Len(lines) :
            lines[i] = line /\ \A j \in (from + 1)..(i - 1) : lines[j] # line
    ELSE 0

\* the line that opens the subgraph block of the cluster called name, at graph level
SubgraphLine(name) == <<"  ", "subgraph ">> \o Get(clusters, name).name \o <<" {">>

\* C23 (as claimed): in the text of to_dot a cluster that was entered while another
\* cluster was active lies inside the enclosing cluster's subgraph block: its
\* block opens after the enclosing block opens and before that block closes.
C23_NestedClusterInsideEnclosing ==
    (/\ result.op = "to_dot" /\ result.err = "none"
     /\ cluster_frames # <<>> /\ InCluster(G)
     /\ Truthy(Last(cluster_frames)) /\ Last(cluster_frames) # current_cluster
     /\ HasKey(clusters, Last(cluster_frames)))
        => LET outer == LineIndex(result.out, SubgraphLine(Last(cluster_frames)), 0)
               close == LineIndex(result.out, <<"  ", "}">>, outer)
               inner == LineIndex(result.out,
                                  <<"  ">> \o SubgraphLine(current_cluster), 0)
           IN  outer # 0 /\ close # 0 /\ outer < inner /\ inner < close

\* the index of the first chunk of a line equal to chunk, 0 when there is none
ChunkIndex(line, chunk) ==
    IF \E i \in 1..Len(line) : line[i] = chunk
    THEN CHOOSE i \in 1..Len(line) : line[i] = chunk /\ \A j \in 1..(i - 1) : line[j] # chunk
    ELSE 0

\* the label value a line of the text carries: in a node statement the characters
\* between 'label="' and the '", ' before 'shape=', in a cluster's label line the
\* characters between 'label="' and the closing '";'; <<>> for any other line
EmittedLabel(line) ==
    IF ChunkIndex(line, "label=\"") # 0 /\ ChunkIndex(line, "shape=") # 0
    THEN SubSeq(line, ChunkIndex(line, "label=\"") + 1, ChunkIndex(line, "shape=") - 4)
    ELSE IF ChunkIndex(line, "  label=\"") # 0 /\ line[Len(line)] = "\";"
    THEN SubSeq(line, ChunkIndex(line, "  label=\"") + 1, Len(line) - 1)
    ELSE <<>>

\* C24 (as claimed): in the text of to_dot no emitted label value, of a node or of a
\* cluster, holds a raw double quote, '<' or '>'.
C24_LabelsEscaped ==
    (result.op = "to_dot" /\ result.err = "none") =>
        \A i \in 1..Len(result.out) :
            \A j \in 1..Len(EmittedLabel(result.out[i])) :
                EmittedLabel(result.out[i])[j] \notin {"\"", "<", ">"}

\* the style the theme's defaults and the overrides kw resolve to
Resolved(defaults, kw) ==
    [f \in DOMAIN defaults |-> IF f \in DOMAIN kw THEN kw[f] ELSE defaults[f]]

\* C25: the style of a created node or edge has the override's value in every
\* field given as an override and the theme's default in every other field (for an
\* edge the style argument is the override of the field style), and no step
\* changes the theme table: a node or edge created without overrides has exactly
\* the theme's default style, whatever was created before it.
C25_OverrideWinsThemeKept ==
    [][/\ theme_config' = get_theme_config(theme)
       /\ (result'.op = "create_node" /\ result'.err = "none") =>
              Get(nodes', result'.args[1]).style =
                  Resolved(get_theme_config(theme).node_style, result'.args[4])
       /\ (result'.op = "edge" /\ result'.err = "none") =>
              Last(edges').style =
                  Resolved([get_theme_config(theme).edge_style
                                EXCEPT !.style = result'.args[4]], result'.args[5])
       /\ (result'.op = "create_edge" /\ result'.err = "none") =>
              Last(edges').style =
                  [get_theme_config(theme).edge_style EXCEPT !.style = Style("SOLID")]]_vars

\* C25 witness: a node has just been created without overrides after a node that
\* was created with the override fillcolor red, and an edge with the override
\* color red is held.
C25_Witness ==
    /\ result.op = "create_node" /\ result.err = "none" /\ result.args[4] = NoKw
    /\ Len(nodes) = 2
    /\ nodes[1][2].style.fillcolor = "red"
    /\ nodes[2][1] = result.args[1]
    /\ nodes[2][2].style = get_theme_config(theme).node_style
    /\ \E i \in 1..Len(edges) : edges[i].style.color = "red"

\* the shape claimed for each role
ClaimedRoleShape(role) ==
    CASE role \in {"start", "end"} -> Shape("ELLIPSE")
      [] role = "process" -> Shape("RECTANGLE")
      [] role = "decision" -> Shape("DIAMOND")
      [] role = "input_output" -> Shape("PARALLELOGRAM")

\* the node a successful creation of id has just stored in the active scope
StoredNode(id) ==
    IF InCluster(G) THEN Last(Get(clusters', current_cluster).nodes)
    ELSE Get(nodes', Replace(id, " ", <<>>))

\* C26: start and end create an ellipse, process a rectangle, decision a diamond,
\* input_output a parallelogram; the label is the one given, or the id as written
\* when none is given; end has the fill '#ffcccc' whatever the theme and the other
\* roles the theme's style; the call returns the handle it was called on.
C26_RolesMapToShapes ==
    [][(result'.op \in Roles /\ result'.err = "none") =>
          LET n == StoredNode(result'.args[1])
              themed == get_theme_config(theme).node_style
          IN  /\ n.id = Replace(result'.args[1], " ", <<>>)
              /\ n.shape = ClaimedRoleShape(result'.op)
              /\ n.label = IF result'.args[2] = None THEN result'.args[1]
                           ELSE result'.args[2]
              /\ n.style = IF result'.op = "end"
                           THEN [themed EXCEPT !.fillcolor = "#ffcccc", !.style = "filled"]
                           ELSE themed
              /\ result'.out = "self"]_vars

\* C26 witness: under the dark theme an end node without a label has just been
\* created, with the highlight fill, next to a decision node.
C26_Witness ==
    /\ theme = "dark"
    /\ result.op = "end" /\ result.err = "none" /\ result.args[2] = None
    /\ result.out = "self"
    /\ \E i \in 1..Len(nodes) :
          /\ nodes[i][1] = result.args[1]
          /\ nodes[i][2].style.fillcolor = "#ffcccc"
          /\ nodes[i][2].shape = Shape("ELLIPSE")
    /\ \E i \in 1..Len(nodes) : nodes[i][2].shape = Shape("DIAMOND")

\* C27: one parse_dsl call on the text T1, a newline, T2 leaves the model that
\* parse_dsl on T1 followed by parse_dsl on T2 leaves on the same graph, whenever
\* the two parses succeed: the single call succeeds as well.
C27_ParseInOneOrTwoCalls ==
    [][result'.op = "parse_dsl" =>
          \A k \in 1..(Len(result'.args[1]) - 1) :
              \E first \in {parse_dsl(G, SubSeq(result'.args[1], 1, k))} :
              \E second \in {parse_dsl(first.g, SubSeq(result'.args[1], k + 1,
                                                       Len(result'.args[1])))} :
                  (first.err = "none" /\ second.err = "none") =>
                      (result'.err = "none" /\ BecameModel(second.g))]_vars

\* C27 witness: a text of two connection lines has been parsed in one call on a
\* graph that held both nodes, and both edges are stored.
C27_Witness ==
    /\ result.op = "parse_dsl" /\ result.err = "none"
    /\ result.args[1] = <<ConnAB, ConnAB>>
    /\ Len(edges) >= 2

\* C28: when '>>' or '//' raises, the chain's last node and pending label are the
\* same as before the operation and no node or edge has been added.
C28_FailedChainStepChangesNothing ==
    [][(result'.op \in {"rshift", "floordiv"} /\ result'.err # "none") =>
          UNCHANGED <<nodes, edges, clusters, last_node, pending_label>>]_vars

\* C28 witness: '>>' has raised on an identifier with a space and '//' on a node
\* that does not exist, while a last node and a pending label were held.
C28_Witness ==
    /\ result.op \in {"rshift", "floordiv"}
    /\ result.err \in {"ValidationError", "NodeNotFoundError"}
    /\ Truthy(last_node) /\ pending_label = LabelGo
    /\ nodes # <<>>

\* C29 (as claimed): no step removes a node or an edge: every edge stored before
\* the step is stored after it, and every node id held by some scope before the
\* step is held by some scope after it, a cluster entered again under its name
\* included.
C29_NothingRemoved ==
    [][/\ IdsOf(AllNodes) \subseteq IdsOf(AllNodes')
       /\ Len(AllEdges') >= Len(AllEdges)
       /\ \A i \in 1..Len(AllEdges) : \E j \in 1..Len(AllEdges') : AllEdges'[j] = AllEdges[i]]_vars

\* C30 (as claimed): an operation of the operator chain leaves every node that
\* exists as it was: its label, shape and style.
C30_ChainKeepsExistingNodes ==
    [][result'.op \in ChainOps =>
          \A i \in 1..Len(AllNodes) : \E j \in 1..Len(AllNodes') : AllNodes'[j] = AllNodes[i]]_vars

====
